---- MODULE Spec2Model ----
(***************************************************************************)
(* A model of axie/transfers.py: AxieTransferManager (verify_inputs,       *)
(* prepare_transfers, execute_transfers) and Transfer (execute, __str__).  *)
(* Strings are sequences of one-character strings, so that len(), slicing  *)
(* and str.replace are computed as Python computes them.                   *)
(***************************************************************************)
EXTENDS Integers, Sequences, FiniteSets, TLC

VARIABLES
    transfers_file,     \* self.transfers_file: the parsed batch (a list of entries)
    secrets_file,       \* self.secrets_file: the parsed secret store, in file order
    secure,             \* self.secure: "None", "False" or "True"
    node,               \* the network node of this run: "prompt" or "any"
    pc,                 \* where the process is
    validation_success, \* verify_inputs' local flag
    critical,           \* records emitted through logging.critical, in order
    exit_status,        \* <<status>> once the process has ended, <<>> before
    acc_idx,            \* prepare_transfers: number of batch entries processed
    axies_in_acc,       \* prepare_transfers: the oracle's answer for each processed entry
    transfers,          \* prepare_transfers: the list of Transfer objects built
    skipped,            \* the "not in account, skipping" records logged, in order
    t_idx,              \* execute_transfers: number of transfers whose execute() returned
    calls,              \* calls made to the outside: ownership, nonce, sign, send
    signed,             \* Transfer.execute: what was signed for the current transfer
    latency,            \* seconds one receipt query takes for the current transfer
    elapsed,            \* datetime.now() - start_time for the current transfer
    success,            \* Transfer.execute's local: "unset", "True" or "False"
    timed_out,          \* whether lines 71-73 ran for the current transfer
    receipt,            \* the last answer of get_transaction_receipt
    queries,            \* receipt queries made for the current transfer
    notfound,           \* "not found" answers the node gave for the current transfer
    sleeps,             \* sleep(10) calls made for the current transfer
    important,          \* "Important:" records logged for the current transfer, in order
    hash,               \* Transfer.execute's local: the hash of the signed transaction
    queried,            \* the hashes the receipt queries for the current transfer asked for
    outcomes,           \* how execute() ended for each transfer it returned for, in order
    from_arg,           \* Transfer(from_acc=...): the address a Transfer is constructed with
    to_arg,             \* Transfer(to_acc=...): the address a Transfer is constructed with
    built,              \* the Transfer constructed from them, <<>> before
    shown               \* what its __str__ shows, <<>> before

vars == <<transfers_file, secrets_file, secure, node, pc, validation_success,
          critical, exit_status, acc_idx, axies_in_acc, transfers, skipped,
          t_idx, calls, signed, latency, elapsed, success, timed_out, receipt,
          queries, notfound, sleeps, important, hash, queried, outcomes,
          from_arg, to_arg, built, shown>>

addrVars == <<from_arg, to_arg, built, shown>>

(***************************************************************************)
(* Bounds of the model.                                                    *)
(***************************************************************************)
MaxEntries == 2       \* entries in a batch
MaxNotFound == 2      \* not-found answers a prompt node gives for one transaction
MaxLatency == 1       \* seconds a receipt query may take
MaxHexLen == 3        \* hex digits of an address a Transfer is constructed with

(***************************************************************************)
(* Program constants.                                                      *)
(***************************************************************************)
TIMEOUT_MINS == 10
SleepSecs == 10
KeyLen == 66
PrefixLen == 2

(***************************************************************************)
(* Python string operations.                                               *)
(***************************************************************************)
Min(a, b) == IF a < b THEN a ELSE b

\* s[:n]
Prefix(s, n) == SubSeq(s, 1, Min(n, Len(s)))

\* s.startswith(p)
StartsWith(s, p) == Len(s) >= Len(p) /\ SubSeq(s, 1, Len(p)) = p

\* s[n:]
Drop(s, n) == SubSeq(s, n + 1, Len(s))

RECURSIVE Replace(_, _, _)
\* s.replace(old, new), old non-empty: every occurrence, left to right
Replace(s, old, new) ==
    IF s = <<>> THEN <<>>
    ELSE IF StartsWith(s, old) THEN new \o Replace(Drop(s, Len(old)), old, new)
    ELSE <<Head(s)>> \o Replace(Tail(s), old, new)

RECURSIVE Repeat(_, _)
Repeat(c, n) == IF n = 0 THEN <<>> ELSE <<c>> \o Repeat(c, n - 1)

RoninPrefix == <<"r", "o", "n", "i", "n", ":">>
HexPrefix == <<"0", "x">>

(***************************************************************************)
(* The inputs of a run.                                                    *)
(***************************************************************************)
A1 == RoninPrefix \o <<"a", "1">>
A2 == RoninPrefix \o <<"a", "2">>
AX == RoninPrefix \o <<"f", "f">>

Good1 == HexPrefix \o Repeat("a", 64)
Good2 == HexPrefix \o Repeat("b", 64)
ShortKey == HexPrefix \o <<"a", "b", "c">>
BadPrefixKey == <<"a", "b">> \o Repeat("c", 64)

\* The secret stores: a JSON object, kept in file order as (account, key) pairs.
SecretStores ==
    { s1 \o s2 : s1 \in {<<>>, << <<A1, Good1>> >>, << <<A1, ShortKey>> >>},
                 s2 \in {<<>>, << <<A2, Good2>> >>, << <<A2, BadPrefixKey>> >>} }

\* The batch entries: two well-formed ones, one without "AccountAddress" and one
\* without "Transfers".
E1 == [AccountAddress |-> A1,
       Transfers |-> << [ReceiverAddress |-> AX, AxieId |-> 5],
                        [ReceiverAddress |-> A2, AxieId |-> 1] >>]
E2 == [AccountAddress |-> A2,
       Transfers |-> << [ReceiverAddress |-> A1, AxieId |-> 2] >>]
ENoAddress == [Transfers |-> <<>>]
ENoTransfers == [AccountAddress |-> A1]

Entries == {E1, E2, ENoAddress, ENoTransfers}

Batches == UNION { [1..n -> Entries] : n \in 0..MaxEntries }

\* The answers of the ownership oracle.
Ownerships == { {}, {1, 2, 3}, {1, 5} }

SecureFlags == {"None", "False", "True"}

(***************************************************************************)
(* The secret store as a Python dict.                                      *)
(***************************************************************************)
\* acc in self.secrets_file
InSecrets(acc) == \E i \in DOMAIN secrets_file : secrets_file[i][1] = acc

\* self.secrets_file[acc], for acc in the store
SecretOf(acc) == secrets_file[CHOOSE i \in DOMAIN secrets_file : secrets_file[i][1] = acc][2]

(***************************************************************************)
(* AxieTransferManager.verify_inputs                                       *)
(***************************************************************************)
\* validate(self.transfers_file, transfers_schema) raises no ValidationError:
\* every entry has its two required fields, and so has every directive.
SchemaValid(batch) ==
    \A i \in DOMAIN batch :
        /\ {"AccountAddress", "Transfers"} \subseteq DOMAIN batch[i]
        /\ \A j \in DOMAIN batch[i].Transfers :
               {"ReceiverAddress", "AxieId"} \subseteq DOMAIN batch[i].Transfers[j]

\* line 119: the key is rejected
KeyRejected(key) == Len(key) # KeyLen \/ Prefix(key, PrefixLen) # HexPrefix

\* line 115 raises KeyError on the first entry that has no "AccountAddress":
\* its index, or 0 when every entry has one.
FirstKeyError(batch) ==
    IF \A i \in DOMAIN batch : "AccountAddress" \in DOMAIN batch[i] THEN 0
    ELSE CHOOSE i \in DOMAIN batch :
            /\ "AccountAddress" \notin DOMAIN batch[i]
            /\ \A k \in 1..(i - 1) : "AccountAddress" \in DOMAIN batch[k]

RECURSIVE MissingDiagnostics(_, _)
\* lines 114-117 over the entries 1..n, in order
MissingDiagnostics(batch, n) ==
    IF n = 0 THEN <<>>
    ELSE MissingDiagnostics(batch, n - 1) \o
         (IF InSecrets(batch[n].AccountAddress) THEN <<>>
          ELSE <<[kind |-> "missing", account |-> batch[n].AccountAddress]>>)

RECURSIVE KeyDiagnostics(_)
\* lines 118-121 over the secret store, in file order
KeyDiagnostics(store) ==
    IF store = <<>> THEN <<>>
    ELSE (IF KeyRejected(Head(store)[2])
          THEN <<[kind |-> "badkey", account |-> Head(store)[1]]>>
          ELSE <<>>) \o KeyDiagnostics(Tail(store))

\* lines 106-112
SchemaDiagnostics(batch) ==
    IF SchemaValid(batch) THEN <<>> ELSE <<[kind |-> "schema", account |-> <<>>]>>

\* lines 123-126
FinalPointers ==
    << [kind |-> "readme", account |-> <<>>], [kind |-> "regenerate", account |-> <<>>] >>

\* sys.exit() with no argument ends the process with status 0; an exception
\* nobody catches ends it with status 1.
SysExitStatus == 0
UncaughtStatus == 1

\* verify_inputs without its sys.exit(): it returns to the caller whatever it found
AfterValidationNoExit(ok) == "prepare"

\* lines 122-128: sys.exit() when validation failed, else return to the caller,
\* which goes on to prepare_transfers.
AfterValidation(ok) == IF ok THEN "prepare" ELSE "exited"

VerifyInputs ==
    /\ pc = "verify"
    /\ LET crashAt == FirstKeyError(transfers_file)
           scanned == IF crashAt = 0 THEN Len(transfers_file) ELSE crashAt - 1
           upToCrash == SchemaDiagnostics(transfers_file) \o
                        MissingDiagnostics(transfers_file, scanned)
           problems == upToCrash \o KeyDiagnostics(secrets_file)
           ok == problems = <<>>
       IN IF crashAt > 0
          THEN /\ pc' = "crashed"
               /\ validation_success' = FALSE
               /\ critical' = upToCrash
               /\ exit_status' = <<UncaughtStatus>>
          ELSE /\ pc' = AfterValidation(ok)
               /\ validation_success' = ok
               /\ critical' = IF ok THEN <<>> ELSE problems \o FinalPointers
               /\ exit_status' = IF pc' = "exited" THEN <<SysExitStatus>> ELSE <<>>
    /\ UNCHANGED <<transfers_file, secrets_file, secure, node, addrVars, acc_idx, axies_in_acc,
                   transfers, skipped, t_idx, calls, signed, latency, elapsed,
                   success, timed_out, receipt, queries, notfound, sleeps, important,
                   hash, queried, outcomes>>

(***************************************************************************)
(* Transfer.__init__ and Transfer.__str__                                  *)
(***************************************************************************)
\* lines 27-32
Transfer(from_acc, from_private, to_acc, axie_id) ==
    [from_acc |-> Replace(from_acc, RoninPrefix, HexPrefix),
     from_private |-> from_private,
     to_acc |-> Replace(to_acc, RoninPrefix, HexPrefix),
     axie_id |-> axie_id]

\* lines 91-93 showing the addresses as they are kept
StrNative(t) == [axie_id |-> t.axie_id, from_acc |-> t.from_acc, to_acc |-> t.to_acc]

\* lines 91-93: the three values the text is made of
Str(t) ==
    [axie_id |-> t.axie_id,
     from_acc |-> Replace(t.from_acc, HexPrefix, RoninPrefix),
     to_acc |-> Replace(t.to_acc, HexPrefix, RoninPrefix)]

(***************************************************************************)
(* AxieTransferManager.prepare_transfers                                   *)
(***************************************************************************)
\* Python's truth value of self.secure
Truthy(flag) == flag = "True"

\* line 136 without its secure-mode test
PolicyAllowsAnyReceiver(receiver) == TRUE

\* line 136
PolicyAllows(receiver) ==
    ~Truthy(secure) \/ (Truthy(secure) /\ InSecrets(receiver))

\* line 138 without its ownership test
InAccountAlways(axie_id, owned) == TRUE

\* line 138
InAccount(axie_id, owned) == axie_id \in owned

\* line 141 with the receiver's key taken when the store has one
KeyOfReceiver(acc, axie) ==
    IF InSecrets(axie.ReceiverAddress) THEN SecretOf(axie.ReceiverAddress)
    ELSE SecretOf(acc.AccountAddress)

\* line 141: from_private
KeyFor(acc, axie) == SecretOf(acc.AccountAddress)

RECURSIVE PrepareDirectives(_, _, _)
\* lines 135-147 over the directives 1..n of entry acc, owned being the oracle's
\* answer: the transfers appended, the skips logged, and whether line 141 raised
\* KeyError (after which nothing more is done).
PrepareDirectives(acc, owned, n) ==
    IF n = 0 THEN [units |-> <<>>, skips |-> <<>>, error |-> FALSE]
    ELSE LET before == PrepareDirectives(acc, owned, n - 1)
             axie == acc.Transfers[n]
         IN IF before.error THEN before
            ELSE IF ~PolicyAllows(axie.ReceiverAddress) THEN before
            ELSE IF ~InAccount(axie.AxieId, owned)
                 THEN [before EXCEPT !.skips =
                          Append(@, [axie_id |-> axie.AxieId,
                                     account |-> acc.AccountAddress])]
            ELSE IF ~InSecrets(acc.AccountAddress)
                 THEN [before EXCEPT !.error = TRUE]
            ELSE [before EXCEPT !.units =
                     Append(@, Transfer(acc.AccountAddress,
                                        KeyFor(acc, axie),
                                        axie.ReceiverAddress, axie.AxieId))]

execVars == <<signed, latency, elapsed, success, timed_out, receipt, queries,
              notfound, sleeps, important, hash, queried>>
inputVars == <<transfers_file, secrets_file, secure, node, addrVars>>
validationVars == <<validation_success, critical>>

\* One iteration of the loop of line 133: the oracle is asked for the account's
\* axies, then the directives of the entry are gone through.  An entry without
\* "AccountAddress" raises KeyError before the oracle is asked, one without
\* "Transfers" after.
PrepareAccount ==
    /\ pc = "prepare"
    /\ acc_idx < Len(transfers_file)
    /\ LET acc == transfers_file[acc_idx + 1]
       IN IF "AccountAddress" \notin DOMAIN acc
          THEN /\ pc' = "crashed"
               /\ exit_status' = <<UncaughtStatus>>
               /\ UNCHANGED <<acc_idx, axies_in_acc, transfers, skipped, calls>>
          ELSE \E owned \in Ownerships :
               /\ calls' = [calls EXCEPT !.ownership = @ + 1]
               /\ axies_in_acc' = Append(axies_in_acc, owned)
               /\ IF "Transfers" \notin DOMAIN acc
                  THEN /\ pc' = "crashed"
                       /\ exit_status' = <<UncaughtStatus>>
                       /\ UNCHANGED <<acc_idx, transfers, skipped>>
                  ELSE LET done == PrepareDirectives(acc, owned, Len(acc.Transfers))
                       IN /\ transfers' = transfers \o done.units
                          /\ skipped' = skipped \o done.skips
                          /\ IF done.error
                             THEN /\ pc' = "crashed"
                                  /\ exit_status' = <<UncaughtStatus>>
                                  /\ UNCHANGED acc_idx
                             ELSE /\ pc' = "prepare"
                                  /\ acc_idx' = acc_idx + 1
                                  /\ UNCHANGED exit_status
    /\ UNCHANGED <<inputVars, validationVars, t_idx, execVars, outcomes>>

\* line 148 inside the loop of line 133: execute_transfers is called with the
\* transfers built so far
ExecuteTransfersEarly ==
    /\ pc = "prepare"
    /\ acc_idx <= Len(transfers_file)
    /\ pc' = "execute"
    /\ UNCHANGED <<inputVars, validationVars, exit_status, acc_idx, axies_in_acc,
                   transfers, skipped, t_idx, calls, execVars, outcomes>>

\* lines 148 and 151: the loop of line 133 is over, execute_transfers is called
ExecuteTransfers ==
    /\ pc = "prepare"
    /\ acc_idx = Len(transfers_file)
    /\ pc' = "execute"
    /\ UNCHANGED <<inputVars, validationVars, exit_status, acc_idx, axies_in_acc,
                   transfers, skipped, t_idx, calls, execVars, outcomes>>

(***************************************************************************)
(* Transfer.execute                                                        *)
(***************************************************************************)
NoReceipt == [found |-> FALSE, status |-> 0]

\* line 152 taking the transfers from the end of the list
NextTransferFromEnd == Len(transfers) - t_idx

\* line 152: the index in the list of the transfer whose execute() runs next or
\* is running
NextTransfer == t_idx + 1

\* lines 43-63 with the transaction sent again
SubmitCallsResending == [nonce |-> 1, sign |-> 1, send |-> 2]

\* lines 43-63: the calls one execute() makes before its loop
SubmitCalls == [nonce |-> 1, sign |-> 1, send |-> 1]

\* lines 45-61: what is signed, and with which key
Signed(t) == [key |-> t.from_private, from_acc |-> t.from_acc,
              to_acc |-> t.to_acc, axie_id |-> t.axie_id]

\* line 65: the hash, a function of the signed transaction alone
Keccak(raw) == <<"keccak", raw>>

\* line 75: the hash the receipt is asked for
QueryHash == hash

\* lines 35-67 when the node accepts the transaction: nonce, build, sign, send,
\* hash, start_time
Submit ==
    /\ pc = "execute"
    /\ t_idx < Len(transfers)
    /\ signed' = Signed(transfers[NextTransfer])
    /\ hash' = Keccak(Signed(transfers[NextTransfer]))
    /\ queried' = {}
    /\ calls' = [calls EXCEPT !.nonce = @ + SubmitCalls.nonce,
                              !.sign = @ + SubmitCalls.sign,
                              !.send = @ + SubmitCalls.send]
    /\ latency' \in 0..MaxLatency
    /\ elapsed' = 0
    /\ success' = "unset"
    /\ timed_out' = FALSE
    /\ receipt' = NoReceipt
    /\ queries' = 0
    /\ notfound' = 0
    /\ sleeps' = 0
    /\ important' = <<>>
    /\ pc' = "poll"
    /\ UNCHANGED <<inputVars, validationVars, exit_status, acc_idx, axies_in_acc,
                   transfers, skipped, t_idx, outcomes>>

\* lines 35-63 when the node rejects the transaction: send_raw_transaction
\* raises, nothing in this file catches it, and the process ends
SubmitRejected ==
    /\ pc = "execute"
    /\ t_idx < Len(transfers)
    /\ signed' = Signed(transfers[NextTransfer])
    /\ hash' = Keccak(Signed(transfers[NextTransfer]))
    /\ queried' = {}
    /\ calls' = [calls EXCEPT !.nonce = @ + SubmitCalls.nonce,
                              !.sign = @ + SubmitCalls.sign,
                              !.send = @ + SubmitCalls.send]
    /\ latency' = 0
    /\ elapsed' = 0
    /\ success' = "unset"
    /\ timed_out' = FALSE
    /\ receipt' = NoReceipt
    /\ queries' = 0
    /\ notfound' = 0
    /\ sleeps' = 0
    /\ important' = <<>>
    /\ pc' = "crashed"
    /\ exit_status' = <<UncaughtStatus>>
    /\ UNCHANGED <<inputVars, validationVars, acc_idx, axies_in_acc, transfers,
                   skipped, t_idx, outcomes>>

\* line 70 with >= in place of >
TimedOutNowEarly(e) == e >= TIMEOUT_MINS * 60

\* line 70
TimedOutNow(e) == e > TIMEOUT_MINS * 60

\* lines 76-79 taking any receipt for a success
SuccessOfAnyReceipt(status) == "True"

\* lines 76-79
SuccessOf(status) == IF status = 1 THEN "True" ELSE "False"

\* lines 81-84 sleeping twice
AfterNotFoundSleepingTwice == [sleep |-> 2, pc |-> "poll"]

\* lines 81-84: what the loop does once the node has answered "not found"
AfterNotFound == [sleep |-> 1, pc |-> "poll"]

\* lines 76-80 with a sleep before the loop is left
AfterReceiptSleeping == [sleep |-> 1, pc |-> "report"]

\* lines 76-80: what the loop does once the node has returned a receipt
AfterReceipt == [sleep |-> 0, pc |-> "report"]

\* lines 70-73
PollTimeout ==
    /\ pc = "poll"
    /\ TimedOutNow(elapsed)
    /\ success' = "False"
    /\ timed_out' = TRUE
    /\ important' = Append(important, [kind |-> "timed_out",
                                       transfer |-> Str(transfers[NextTransfer])])
    /\ pc' = "report"
    /\ UNCHANGED <<inputVars, validationVars, exit_status, acc_idx, axies_in_acc,
                   transfers, skipped, t_idx, calls, signed, latency, elapsed,
                   receipt, queries, notfound, sleeps, hash, queried, outcomes>>

\* lines 74-80: the node returns a receipt
PollReceipt ==
    /\ pc = "poll"
    /\ ~TimedOutNow(elapsed)
    /\ \E status \in {0, 1} :
          /\ receipt' = [found |-> TRUE, status |-> status]
          /\ success' = SuccessOf(status)
    /\ queries' = queries + 1
    /\ queried' = queried \cup {QueryHash}
    /\ sleeps' = sleeps + AfterReceipt.sleep
    /\ elapsed' = elapsed + latency + AfterReceipt.sleep * SleepSecs
    /\ pc' = AfterReceipt.pc
    /\ UNCHANGED <<inputVars, validationVars, exit_status, acc_idx, axies_in_acc,
                   transfers, skipped, t_idx, calls, signed, latency, timed_out,
                   notfound, important, hash, outcomes>>

\* lines 74-75 and 81-84: the node answers "not found"; a prompt node does so at
\* most MaxNotFound times for one transaction
PollNotFound ==
    /\ pc = "poll"
    /\ ~TimedOutNow(elapsed)
    /\ node = "any" \/ notfound < MaxNotFound
    /\ receipt' = NoReceipt
    /\ queries' = queries + 1
    /\ queried' = queried \cup {QueryHash}
    /\ notfound' = notfound + 1
    /\ sleeps' = sleeps + AfterNotFound.sleep
    /\ elapsed' = elapsed + latency + AfterNotFound.sleep * SleepSecs
    /\ pc' = AfterNotFound.pc
    /\ UNCHANGED <<inputVars, validationVars, exit_status, acc_idx, axies_in_acc,
                   transfers, skipped, t_idx, calls, signed, latency, success,
                   timed_out, important, hash, outcomes>>

\* lines 85-89: the record logged after the loop
FinalRecord(ok, t) ==
    IF ok = "True" THEN [kind |-> "completed", transfer |-> Str(t)]
    ELSE [kind |-> "failed", transfer |-> Str(t)]

\* line 153 raising when execute() had no success
AfterReportRaising(ok) == IF ok = "True" THEN "execute" ELSE "crashed"

\* line 153: execute() returns None whatever success was, and the loop goes on
AfterReport(ok) == "execute"

\* lines 85-89, and the return to the loop of line 152
Report ==
    /\ pc = "report"
    /\ important' = Append(important, FinalRecord(success, transfers[NextTransfer]))
    /\ outcomes' = Append(outcomes, [timed_out |-> timed_out, success |-> success])
    /\ t_idx' = t_idx + 1
    /\ pc' = AfterReport(success)
    /\ exit_status' = IF pc' = "crashed" THEN <<UncaughtStatus>> ELSE exit_status
    /\ UNCHANGED <<inputVars, validationVars, acc_idx, axies_in_acc,
                   transfers, skipped, calls, signed, latency, elapsed, success,
                   timed_out, receipt, queries, notfound, sleeps, hash, queried>>

(***************************************************************************)
(* AxieTransferManager.execute_transfers                                   *)
(***************************************************************************)
\* line 154: the loop of line 152 is over; the process ends normally
Finished ==
    /\ pc = "execute"
    /\ t_idx = Len(transfers)
    /\ pc' = "finished"
    /\ exit_status' = <<0>>
    /\ UNCHANGED <<inputVars, validationVars, acc_idx, axies_in_acc, transfers,
                   skipped, t_idx, calls, execVars, outcomes>>

(***************************************************************************)
(* The specification.                                                      *)
(***************************************************************************)
\* A run against a node that may answer "not found" for ever has a batch of at
\* most one entry.
Nodes(batch) == IF Len(batch) <= 1 THEN {"prompt", "any"} ELSE {"prompt"}

\* Nothing has run yet
Fresh ==
    /\ validation_success = TRUE
    /\ critical = <<>>
    /\ exit_status = <<>>
    /\ acc_idx = 0
    /\ axies_in_acc = <<>>
    /\ transfers = <<>>
    /\ skipped = <<>>
    /\ t_idx = 0
    /\ calls = [ownership |-> 0, nonce |-> 0, sign |-> 0, send |-> 0]
    /\ signed = <<>>
    /\ latency = 0
    /\ elapsed = 0
    /\ success = "unset"
    /\ timed_out = FALSE
    /\ receipt = NoReceipt
    /\ queries = 0
    /\ notfound = 0
    /\ sleeps = 0
    /\ important = <<>>
    /\ hash = <<>>
    /\ queried = {}
    /\ outcomes = <<>>

Init ==
    /\ transfers_file \in Batches
    /\ secrets_file \in SecretStores
    /\ secure \in SecureFlags
    /\ node \in Nodes(transfers_file)
    /\ pc = "verify"
    /\ Fresh
    /\ from_arg = <<>>
    /\ to_arg = <<>>
    /\ built = <<>>
    /\ shown = <<>>

Next ==
    \/ VerifyInputs
    \/ PrepareAccount
    \/ ExecuteTransfers
    \/ Submit
    \/ SubmitRejected
    \/ PollTimeout
    \/ PollReceipt
    \/ PollNotFound
    \/ Report
    \/ Finished

Spec == Init /\ [][Next]_vars

\* The process is a single thread that runs until it ends: it never stops while
\* it has a step to take.
FairSpec == Init /\ [][Next]_vars /\ WF_vars(Next)

(***************************************************************************)
(* Transfer.__init__ and Transfer.__str__ on their own: a Transfer is      *)
(* constructed from two human-facing addresses and then shown.             *)
(***************************************************************************)
HexDigits == {"0", "a", "F"}

HexStrings == UNION { [1..n -> HexDigits] : n \in 0..MaxHexLen }

\* "ronin:" followed by hex digits
HumanAddresses == { RoninPrefix \o h : h \in HexStrings }

AddrInit ==
    /\ transfers_file = <<>>
    /\ secrets_file = <<>>
    /\ secure = "None"
    /\ node = "prompt"
    /\ pc = "construct"
    /\ Fresh
    /\ from_arg \in HumanAddresses
    /\ to_arg \in HumanAddresses
    /\ built = <<>>
    /\ shown = <<>>

runVars == <<transfers_file, secrets_file, secure, node, validationVars, exit_status,
             acc_idx, axies_in_acc, transfers, skipped, t_idx, calls, execVars,
             outcomes>>

\* lines 27-32
Construct ==
    /\ pc = "construct"
    /\ built' = Transfer(from_arg, Good1, to_arg, 1)
    /\ pc' = "display"
    /\ UNCHANGED <<runVars, from_arg, to_arg, shown>>

\* lines 91-93
Display ==
    /\ pc = "display"
    /\ shown' = Str(built)
    /\ pc' = "shown"
    /\ UNCHANGED <<runVars, from_arg, to_arg, built>>

AddrNext == Construct \/ Display

AddrSpec == AddrInit /\ [][AddrNext]_vars

(***************************************************************************)
(* What the inputs of the run are, said without the operators above.       *)
(***************************************************************************)
\* the batch names an account that has no entry in the secret store
AccountsWithoutSecret ==
    { transfers_file[i].AccountAddress :
        i \in { k \in DOMAIN transfers_file :
                  /\ "AccountAddress" \in DOMAIN transfers_file[k]
                  /\ \A n \in DOMAIN secrets_file :
                        secrets_file[n][1] # transfers_file[k].AccountAddress } }

\* the accounts of the secret store whose key is not 66 characters starting "0x"
AccountsWithBadKey ==
    { secrets_file[n][1] :
        n \in { k \in DOMAIN secrets_file :
                  \/ Len(secrets_file[k][2]) # 66
                  \/ Len(secrets_file[k][2]) < 2
                  \/ SubSeq(secrets_file[k][2], 1, 2) # <<"0", "x">> } }

\* an entry of the batch lacks one of its two fields
BatchMalformed ==
    \E i \in DOMAIN transfers_file :
        DOMAIN transfers_file[i] # {"AccountAddress", "Transfers"}

InputProblem ==
    BatchMalformed \/ AccountsWithoutSecret # {} \/ AccountsWithBadKey # {}

\* the accounts named by the critical diagnostics of one kind
Named(kind) ==
    { critical[i].account : i \in { k \in DOMAIN critical : critical[k].kind = kind } }

NoCallMade == calls = [ownership |-> 0, nonce |-> 0, sign |-> 0, send |-> 0]

ProcessEnded == pc \in {"exited", "crashed", "finished"}

(***************************************************************************)
(* The claims.                                                             *)
(***************************************************************************)
\* C1: once validation has found a problem in the inputs (a malformed batch, a
\* batch account without a secret, a malformed key), the process has ended inside
\* verify_inputs and nothing of a transfer has happened: no ownership query, no
\* nonce fetch, no signature, no submission, no Transfer built.
C1_NoTransferAfterFailedValidation ==
    (pc # "verify" /\ (InputProblem \/ critical # <<>>)) =>
        /\ pc \in {"exited", "crashed"}
        /\ NoCallMade
        /\ transfers = <<>>
        /\ signed = <<>>
        /\ acc_idx = 0 /\ t_idx = 0

\* C1 witness: validation has ended the process on a batch that is well-formed
\* and has transfers to make, because of the secret store
C1_Witness ==
    /\ pc = "exited"
    /\ ~BatchMalformed
    /\ \E i \in DOMAIN transfers_file : transfers_file[i].Transfers # <<>>
    /\ critical # <<>>

\* C2 as claimed: a failed validation ends the process with a non-zero exit
\* status, and a batch that ran to completion ends it with status zero.
C2_ExitStatusClaim ==
    /\ (pc # "verify" /\ InputProblem) =>
           (exit_status # <<>> /\ exit_status # <<0>>)
    /\ pc = "finished" => exit_status = <<0>>

\* C3 as claimed: once validation is over, every account of the secret store whose
\* key is malformed is named by a key diagnostic and validation has failed, and
\* no account with a well-formed key is named by one.
C3_KeyFormatClaim ==
    pc # "verify" =>
        /\ Named("badkey") = AccountsWithBadKey
        /\ AccountsWithBadKey # {} => pc \in {"exited", "crashed"}

\* C4 as claimed: once validation is over, every batch account without an entry
\* in the secret store is named by a missing-account diagnostic and validation
\* has failed.
C4_MissingAccountClaim ==
    pc # "verify" =>
        /\ AccountsWithoutSecret \subseteq Named("missing")
        /\ AccountsWithoutSecret # {} => pc \in {"exited", "crashed"}

\* C5 as claimed: validation makes its three checks in one pass whatever the
\* earlier ones found: once it is over, a malformed batch has its schema
\* diagnostic, every missing account and every malformed key has its own
\* diagnostic, and the two closing records follow them when there was a problem.
C5_ExhaustiveClaim ==
    pc # "verify" =>
        /\ BatchMalformed <=> (\E i \in DOMAIN critical : critical[i].kind = "schema")
        /\ Named("missing") = AccountsWithoutSecret
        /\ Named("badkey") = AccountsWithBadKey
        /\ InputProblem =>
              /\ Len(critical) >= 2
              /\ critical[Len(critical) - 1].kind = "readme"
              /\ critical[Len(critical)].kind = "regenerate"

(***************************************************************************)
(* What prepare_transfers was given, said without the operators above.     *)
(***************************************************************************)
\* the directives gone through so far, as (entry, directive) index pairs
Processed ==
    UNION { { <<i, j>> : j \in DOMAIN transfers_file[i].Transfers } : i \in 1..acc_idx }

AccountAt(p) == transfers_file[p[1]].AccountAddress
ReceiverAt(p) == transfers_file[p[1]].Transfers[p[2]].ReceiverAddress
AxieAt(p) == transfers_file[p[1]].Transfers[p[2]].AxieId

\* the asset of the directive is in the set the oracle returned for its entry
Owned(p) == AxieAt(p) \in axies_in_acc[p[1]]

\* the receiver of the directive is a key of the secret store
ReceiverKnown(p) == \E n \in DOMAIN secrets_file : secrets_file[n][1] = ReceiverAt(p)

SecureOn == secure = "True"

\* the directive passes the secure-mode policy
Allowed(p) == ~SecureOn \/ ReceiverKnown(p)

\* "ronin:" followed by hex digits, in native form
Native(addr) == <<"0", "x">> \o SubSeq(addr, 7, Len(addr))

\* the directives that name the same source, receiver and asset as p
SameTransfer(p) ==
    { q \in Processed : /\ AccountAt(q) = AccountAt(p)
                        /\ ReceiverAt(q) = ReceiverAt(p)
                        /\ AxieAt(q) = AxieAt(p) }

\* the Transfer objects built for the source, receiver and asset of p
UnitsFor(p) ==
    { k \in DOMAIN transfers : /\ transfers[k].from_acc = Native(AccountAt(p))
                               /\ transfers[k].to_acc = Native(ReceiverAt(p))
                               /\ transfers[k].axie_id = AxieAt(p) }

\* the skips logged for the account and asset of p
SkipsFor(p) ==
    { k \in DOMAIN skipped : /\ skipped[k].account = AccountAt(p)
                             /\ skipped[k].axie_id = AxieAt(p) }

\* the directives that name the same account and asset as p
SameAsset(p) ==
    { q \in Processed : AccountAt(q) = AccountAt(p) /\ AxieAt(q) = AxieAt(p) }

\* prepare_transfers is running or has run, and nothing raised in it
Prepared == pc \in {"prepare", "execute", "poll", "report", "finished"}

\* C6 as claimed: every directive whose asset is not owned has a skip logged and
\* no Transfer, and the owned directives that pass the policy have their Transfer.
C6_SkipLoggedClaim ==
    Prepared =>
        \A p \in Processed :
            /\ Cardinality(UnitsFor(p)) =
                   Cardinality({ q \in SameTransfer(p) : Owned(q) /\ Allowed(q) })
            /\ Cardinality(SkipsFor(p)) =
                   Cardinality({ q \in SameAsset(p) : ~Owned(q) })

\* C6 (amended): a directive whose asset is not owned yields no Transfer, and has
\* a skip logged exactly when it passes the secure-mode policy; the owned
\* directives that pass the policy each yield their Transfer, whatever was
\* skipped around them.
C6_SkipUnowned ==
    Prepared =>
        /\ \A p \in Processed :
            /\ Cardinality(UnitsFor(p)) =
                   Cardinality({ q \in SameTransfer(p) : Owned(q) /\ Allowed(q) })
            /\ Cardinality(SkipsFor(p)) =
                   Cardinality({ q \in SameAsset(p) : ~Owned(q) /\ Allowed(q) })
        /\ Len(transfers) = Cardinality({ q \in Processed : Owned(q) /\ Allowed(q) })

\* C6 witness: an entry with a directive that is not owned, skipped and logged,
\* and another directive that is owned and has its Transfer
C6_Witness ==
    /\ pc = "execute"
    /\ \E p \in Processed, q \in Processed :
          /\ p[1] = q[1]
          /\ ~Owned(p) /\ Allowed(p) /\ SkipsFor(p) # {}
          /\ Owned(q) /\ Allowed(q) /\ UnitsFor(q) # {}

\* C7: with secure mode on, no Transfer is built for a receiver that is not a key
\* of the secret store, owned or not; with secure mode off or unset, every owned
\* directive has its Transfer.
C7_SecureMode ==
    Prepared =>
        /\ SecureOn =>
              /\ \A p \in Processed : ~ReceiverKnown(p) => UnitsFor(p) = {}
              /\ \A k \in DOMAIN transfers :
                    \E n \in DOMAIN secrets_file :
                        Native(secrets_file[n][1]) = transfers[k].to_acc
        /\ ~SecureOn =>
              \A p \in Processed :
                  Cardinality(UnitsFor(p)) =
                      Cardinality({ q \in SameTransfer(p) : Owned(q) })

\* C7 witness: secure mode on, and a directive whose asset is owned and whose
\* receiver is not in the secret store has been gone through
C7_Witness ==
    /\ pc = "execute"
    /\ SecureOn
    /\ \E p \in Processed : Owned(p) /\ ~ReceiverKnown(p) /\ UnitsFor(p) = {}

(***************************************************************************)
(* The outcome of Transfer.execute.                                        *)
(***************************************************************************)
\* execute has left its loop for the transfer the per-transfer variables are of
LoopLeft == pc = "report" \/ (pc \in {"execute", "finished"} /\ t_idx > 0)

\* execute has returned for that transfer
Returned == pc \in {"execute", "finished"} /\ t_idx > 0

Outcome ==
    IF timed_out THEN "TimedOut"
    ELSE IF success = "True" THEN "Succeeded"
    ELSE "Failed"

\* C8: when the node answered "not found" n times and then returned a receipt
\* with status 1, the outcome is Succeeded, after exactly n sleeps and n + 1
\* queries: no sleep follows the query that returned the receipt.
C8_SucceededAfterNotFound ==
    (LoopLeft /\ receipt.found /\ receipt.status = 1) =>
        /\ Outcome = "Succeeded"
        /\ sleeps = notfound
        /\ queries = notfound + 1
        /\ Returned => important = <<[kind |-> "completed",
                                      transfer |-> Str(transfers[t_idx])]>>

\* C8 witness: not found, not found, success
C8_Witness ==
    /\ Returned
    /\ notfound = 2
    /\ receipt = [found |-> TRUE, status |-> 1]
    /\ sleeps = 2

\* C10 as claimed: when execute has returned, it has logged exactly one
\* "Important:" record for the transfer.
C10_OneTerminalRecordClaim ==
    Returned => Len(important) = 1

\* C9: a transfer for which every receipt query answered "not found" ends
\* TimedOut; the timeout is never decided while the time elapsed since the first
\* poll is at most 10 minutes (600 seconds); and the poll loop is always left.
C9_TimedOut ==
    /\ [](timed_out => elapsed > 600)
    /\ []((LoopLeft /\ queries = notfound) => Outcome = "TimedOut")
    /\ (pc = "poll" ~> pc = "report")

\* C9 witness: the loop was left on the timeout after nothing but "not found"
C9_Witness ==
    /\ pc = "report"
    /\ timed_out
    /\ queries = notfound
    /\ notfound > 2

(***************************************************************************)
(* The claims about execute_transfers.                                     *)
(***************************************************************************)
\* C11: execute() returns to the loop of execute_transfers whatever the outcome
\* (Succeeded, Failed, TimedOut): the step after the loop is left goes back to
\* the list with one more transfer done and the process still running; from
\* there the only step is the submission of the next transfer while one is
\* left; and the run finishes only once execute() has returned for every
\* transfer of the list.
C11_FailureDoesNotAbort ==
    /\ [][pc = "report" =>
              /\ pc' = "execute"
              /\ t_idx' = t_idx + 1
              /\ Len(outcomes') = Len(outcomes) + 1
              /\ exit_status' = <<>>]_vars
    /\ [][(pc = "execute" /\ t_idx < Len(transfers)) =>
              /\ pc' \in {"poll", "crashed"}
              /\ calls'.send = calls.send + 1]_vars
    /\ [](pc = "finished" =>
              /\ t_idx = Len(transfers)
              /\ Len(outcomes) = Len(transfers))

\* C11 witness: the run has finished, its first transfer timed out and its
\* second failed on chain
C11_Witness ==
    /\ pc = "finished"
    /\ Len(outcomes) = 2
    /\ outcomes[1].timed_out
    /\ ~outcomes[2].timed_out /\ outcomes[2].success = "False"

\* C12 as claimed: a transaction rejected at submission is a failure of that one
\* transfer; the process does not end on it and the transfers after it are
\* executed.
C12_RejectionClaim ==
    /\ pc = "crashed" => calls.send = 0
    /\ (ProcessEnded /\ calls.send > 0) => Len(outcomes) = Len(transfers)

\* the directives a Transfer is built for
Built == { p \in Processed : Owned(p) /\ Allowed(p) }

\* the place in batch order of p among them
Rank(p) ==
    Cardinality({ q \in Built : q[1] < p[1] \/ (q[1] = p[1] /\ q[2] <= p[2]) })

\* C13: the list of transfers is in batch order (entries in order, directives in
\* order within an entry); the transfer being executed is the one after those
\* execute() has returned for; and a transaction is sent only when every one
\* sent before it has had its execute() return, so that at most one transaction
\* is awaited at any time.
C13_OneAtATimeInBatchOrder ==
    /\ Prepared =>
          \A p \in Built :
              /\ Rank(p) \in DOMAIN transfers
              /\ transfers[Rank(p)].from_acc = Native(AccountAt(p))
              /\ transfers[Rank(p)].to_acc = Native(ReceiverAt(p))
              /\ transfers[Rank(p)].axie_id = AxieAt(p)
    /\ pc \in {"poll", "report"} =>
          /\ calls.send = t_idx + 1
          /\ Len(outcomes) = t_idx
          /\ signed.from_acc = transfers[t_idx + 1].from_acc
          /\ signed.to_acc = transfers[t_idx + 1].to_acc
          /\ signed.axie_id = transfers[t_idx + 1].axie_id
    /\ pc \in {"execute", "finished"} =>
          /\ calls.send = t_idx
          /\ Len(outcomes) = t_idx
    /\ calls.send > 0 => acc_idx = Len(transfers_file)

\* C13 witness: the second of two transfers from one source account is awaited,
\* execute() having returned for the first
C13_Witness ==
    /\ pc = "poll"
    /\ t_idx = 1
    /\ Len(transfers) = 2
    /\ transfers[1].from_acc = transfers[2].from_acc
    /\ transfers[1] # transfers[2]

(***************************************************************************)
(* The claim about Transfer.__init__ and Transfer.__str__.                 *)
(***************************************************************************)
\* C14: a Transfer constructed from "ronin:" addresses keeps them in native form
\* ("0x" and the same hex digits), and its __str__ shows the very addresses it
\* was constructed from, the source and the destination alike.
C14_RoundTrip ==
    /\ pc \in {"display", "shown"} =>
          /\ built.from_acc = <<"0", "x">> \o SubSeq(from_arg, 7, Len(from_arg))
          /\ built.to_acc = <<"0", "x">> \o SubSeq(to_arg, 7, Len(to_arg))
    /\ pc = "shown" =>
          /\ shown.from_acc = from_arg
          /\ shown.to_acc = to_arg

\* C14 witness: a Transfer from an address whose hex digits start with 0 to
\* another address has been shown
C14_Witness ==
    /\ pc = "shown"
    /\ from_arg # to_arg
    /\ Len(from_arg) > 7 /\ from_arg[7] = "0"
    /\ Len(to_arg) > 6
    /\ shown.from_acc = from_arg

(***************************************************************************)
(* The claims about the loop of Transfer.execute.                          *)
(***************************************************************************)
\* C15: a receipt query is made only when the time elapsed at the top of the
\* iteration is at most 600 seconds; every query answered "not found" is
\* followed by one sleep before the next query; and the timeout is decided at
\* most one 10-second interval (and the time of one query) after 600 seconds,
\* at most 610 seconds when the queries take no time.
C15_TimeoutAtTopOfLoop ==
    /\ [][queries' = queries + 1 => elapsed <= 600]_vars
    /\ [](pc = "poll" => (sleeps = queries /\ notfound = queries))
    /\ [](LoopLeft => (sleeps = notfound /\ queries <= sleeps + 1))
    /\ [](timed_out => (elapsed > 600 /\ elapsed <= 600 + 10 + latency))

\* C15 witness: with queries that take no time, the timeout was decided at 610
\* seconds
C15_Witness ==
    /\ pc = "report"
    /\ timed_out
    /\ latency = 0
    /\ elapsed = 610
    /\ queries = 61

\* C16: the first receipt ends the loop and decides the outcome: status 1 gives
\* Succeeded and any other status Failed; no query or sleep follows it, and what
\* was decided is what is logged and is not changed afterwards.
C16_FirstReceiptDecides ==
    /\ []((LoopLeft /\ receipt.found) =>
              /\ queries = notfound + 1
              /\ sleeps = notfound
              /\ ~timed_out
              /\ receipt.status = 1 => Outcome = "Succeeded"
              /\ receipt.status # 1 => Outcome = "Failed")
    /\ []((Returned /\ receipt.found) =>
              /\ Len(important) = 1
              /\ important[1].kind = (IF receipt.status = 1 THEN "completed" ELSE "failed")
              /\ outcomes[t_idx].success = success
              /\ ~outcomes[t_idx].timed_out)
    /\ [][(pc = "report" /\ receipt.found) =>
              UNCHANGED <<queries, sleeps, notfound, success, timed_out, receipt, elapsed>>]_vars
    /\ [][(LoopLeft /\ receipt.found /\ pc' # "poll" /\ pc' # "crashed") =>
              UNCHANGED <<queries, sleeps, success, timed_out, receipt>>]_vars

\* C16 witness: not found once, then a receipt with status 0: Failed
C16_Witness ==
    /\ Returned
    /\ receipt = [found |-> TRUE, status |-> 0]
    /\ notfound = 1
    /\ Outcome = "Failed"

\* C17 as claimed: a transfer that timed out has no "failed" record, and a
\* transfer that failed on chain has no "timed out" record.
C17_DistinctRecordsClaim ==
    Returned =>
        /\ timed_out => \A i \in DOMAIN important : important[i].kind # "failed"
        /\ (~timed_out /\ success = "False") =>
               \A i \in DOMAIN important : important[i].kind # "timed_out"

\* C18: one execute() fetches the nonce once, signs once and sends once, however
\* many polls it makes and however it ends, and every receipt query asks for the
\* one hash computed from what was signed.
C18_NothingRetried ==
    /\ pc \in {"poll", "report"} =>
          calls = [ownership |-> acc_idx, nonce |-> t_idx + 1,
                   sign |-> t_idx + 1, send |-> t_idx + 1]
    /\ pc \in {"execute", "finished"} =>
          calls = [ownership |-> acc_idx, nonce |-> t_idx,
                   sign |-> t_idx, send |-> t_idx]
    /\ (pc = "crashed" /\ calls.send > 0) =>
          (calls.nonce = t_idx + 1 /\ calls.sign = t_idx + 1 /\ calls.send = t_idx + 1)
    /\ queried \subseteq {<<"keccak", signed>>}
    /\ (pc \in {"poll", "report"} /\ queries > 0) => queried = {hash}

\* C18 witness: the second transfer of a run has left its loop after three polls
C18_Witness ==
    /\ pc = "report"
    /\ t_idx = 1
    /\ queries = 3
    /\ calls.send = 2

(***************************************************************************)
(* The claims about what prepare_transfers hands to execute.               *)
(***************************************************************************)
\* the key the secret store has for the account whose native form is addr
HasKey(addr, key) ==
    \E n \in DOMAIN secrets_file :
        /\ <<"0", "x">> \o SubSeq(secrets_file[n][1], 7, Len(secrets_file[n][1])) = addr
        /\ secrets_file[n][2] = key

\* C19: every Transfer carries the key the secret store has for its own source
\* account, and whatever is signed is signed with the key of the account it is
\* sent from.
C19_OwnKey ==
    /\ \A k \in DOMAIN transfers :
          /\ HasKey(transfers[k].from_acc, transfers[k].from_private)
          /\ transfers[k].to_acc # transfers[k].from_acc =>
                 ~HasKey(transfers[k].to_acc, transfers[k].from_private)
    /\ signed # <<>> => HasKey(signed.from_acc, signed.key)

\* C19 witness: in secure mode a transaction to an account of the secret store
\* has been signed
C19_Witness ==
    /\ SecureOn
    /\ pc = "poll"
    /\ \E n \in DOMAIN secrets_file : Native(secrets_file[n][1]) = signed.to_acc

\* C20: the oracle is asked once for each entry of the batch, every entry has
\* been asked for before the first transaction is sent, and once a transaction
\* has been sent the oracle is not asked again and the list of transfers does
\* not change.
C20_OwnershipSnapshot ==
    /\ [](Prepared => (calls.ownership = acc_idx /\ Len(axies_in_acc) = acc_idx))
    /\ [](calls.send > 0 =>
              (calls.ownership = Len(transfers_file) /\ acc_idx = Len(transfers_file)))
    /\ [][calls.send > 0 =>
              (calls'.ownership = calls.ownership
               /\ UNCHANGED <<transfers, axies_in_acc, acc_idx>>)]_vars
    /\ [][(pc = "execute" \/ pc = "poll" \/ pc = "report") =>
              (calls'.ownership = calls.ownership
               /\ UNCHANGED <<transfers, axies_in_acc, acc_idx>>)]_vars

\* C20 witness: a run over two entries has finished after sending two
\* transactions
C20_Witness ==
    /\ pc = "finished"
    /\ calls.ownership = 2
    /\ calls.send >= 2

====
